---- MODULE Spec2Model ----
(***************************************************************************)
(* Model of the torch_data pipeline engine: the Batch iterator             *)
(* (_ops/_batch.py), the Window iterator (_ops/_window.py), the Tensors    *)
(* source (_sources/_tensors.py) and the session entry point of Dataset    *)
(* (_dataset.py).                                                          *)
(***************************************************************************)
EXTENDS Integers, Sequences, FiniteSets, Bags, TLC

\* ---------------------------------------------------------------- bounds
MaxN == 5
MaxSize == 3
MaxStride == 3
MaxStops == 2
MaxMapN == 3
MaxCalls == 2
MaxBuffer == 3
MaxShuffleN == 4
MaxShuffleBuffer == 3
MaxArity == 2
MaxIterN == 3
MaxOps == 1
MaxPulls == 6

\* ------------------------------------------------------------- sentinels
\* Python None in a container slot; record values are >= 1.
None == 0
\* the iterators' `_none` sentinel, and None where a record is expected: a
\* record of no items, which no upstream produces
_none == [is_tuple |-> FALSE, items |-> <<>>]
\* the exhaustion signal (StopIteration / StopAsyncIteration) as a result
Stop == <<>>
\* `self._batch = None`: no running container (a made container has
\* batch_size >= 1 positions, so it is never the empty tuple)
NoBatch == <<>>

VARIABLES
    n,            \* number of records of the upstream
    size,         \* batch_size of the Batch operator, size of the Window operator
    stride,       \* stride of the Window operator
    drop_last,    \* drop_last of both operators
    batchIt,      \* the _BatchIterator of the session
    batchOut,     \* containers the Batch iterator has returned, in order
    batchStops,   \* number of pulls on the Batch iterator that raised StopIteration
    windowIt,     \* the _WindowIterator of the session
    windowOut,    \* containers the Window iterator has returned, in order
    windowStops,  \* number of pulls on the Window iterator that raised StopAsyncIteration
    mapCfg,       \* configuration of the Map operator and of its upstream
    mapIt,        \* the Map iterator of the session
    mapOut,       \* results the Map iterator has emitted, in order
    pfCfg,        \* the Dataset iterated through Dataset.__aiter__
    pfIt,         \* the Prefetch iterator of the session
    pfOut,        \* records the consumer has read from the Prefetch iterator
    pfStops,      \* number of consumer pulls that signalled exhaustion
    shCfg,        \* configuration of the Shuffle operator and of its upstream
    shIt,         \* the Shuffle iterator of each of two sessions
    shOut,        \* records each Shuffle session has emitted, in order
    tensors,      \* the record held by the TensorsDataSource
    iterators,    \* the _WindowIterator objects created so far
    sessions,     \* per top-level iteration request: id, iterator, outputs
    chain,        \* the operator the iterated Dataset ends in
    itCfg,        \* one iterator analysed alone: its class, arguments and upstream
    itIt,         \* that iterator
    itOut,        \* what its pulls have returned, in order
    itStops,      \* number of its pulls that signalled exhaustion
    itErrs,       \* number of its pulls that raised an error
    operators,    \* the operators constructed by the Dataset builder methods
    rejected,     \* number of builder calls that raised
    sync          \* the blocking iterator: its state and the tasks of its loop

groupVars == <<n, size, stride, drop_last, batchIt, batchOut, batchStops,
               windowIt, windowOut, windowStops>>
mapVars == <<mapCfg, mapIt, mapOut>>
pfVars == <<pfCfg, pfIt, pfOut, pfStops>>
shVars == <<shCfg, shIt, shOut>>
sessVars == <<tensors, iterators, sessions, chain>>

iterVars == <<itCfg, itIt, itOut, itStops, itErrs>>
ctorVars == <<operators, rejected>>
syncVars == <<sync>>
moreVars == <<iterVars, ctorVars, syncVars>>
vars == <<groupVars, mapVars, pfVars, shVars, sessVars, moreVars>>

\* the components a specification does not use stay at these values
GroupIdle ==
    /\ n = 0 /\ size = 1 /\ stride = 1 /\ drop_last = TRUE
    /\ batchIt = <<>> /\ batchOut = <<>> /\ batchStops = 0
    /\ windowIt = <<>> /\ windowOut = <<>> /\ windowStops = 0

MapIdle == mapCfg = <<>> /\ mapIt = <<>> /\ mapOut = <<>>

PrefetchIdle == pfCfg = <<>> /\ pfIt = <<>> /\ pfOut = <<>> /\ pfStops = 0

ShuffleIdle == shCfg = <<>> /\ shIt = <<>> /\ shOut = <<>>

SessionsIdle == tensors = <<>> /\ iterators = <<>> /\ sessions = <<>> /\ chain = ""

IterIdle == itCfg = <<>> /\ itIt = <<>> /\ itOut = <<>> /\ itStops = 0 /\ itErrs = 0

ConstructIdle == operators = <<>> /\ rejected = 0

SyncIdle == sync = <<>>

\* ------------------------------------------------------------ records
\* A bare (non-tuple) upstream value v.
Rec(v) == [is_tuple |-> FALSE, items |-> <<v>>]

\* The upstream of k records: the bare values 1..k in order.
Upstream(k) == [i \in 1..k |-> Rec(i)]

\* A per-session pull-iterator over a finite sequence of records.
SeqSource(records) ==
    [kind |-> "seq", session_id |-> 0, tensors |-> _none, rest |-> records]

\* pull on the sequence source: next record, or the exhaustion sentinel
SeqSourceNext(src) ==
    IF src.rest = <<>>
    THEN [sample |-> _none, src |-> src]
    ELSE [sample |-> Head(src.rest), src |-> [src EXCEPT !.rest = Tail(@)]]

\* _TensorsIterator.__init__
TensorsIterator(session_id, t) ==
    [kind |-> "tensors", session_id |-> session_id, tensors |-> t, rest |-> <<>>]

\* a slip: signalling exhaustion re-arms the iterator
TensorsNextRearm(src) ==
    IF src.tensors = _none
    THEN [sample |-> _none, src |-> [src EXCEPT !.tensors = Rec(1)]]
    ELSE [sample |-> src.tensors, src |-> [src EXCEPT !.tensors = _none]]

\* _TensorsIterator.__anext__
TensorsNext(src) ==
    IF src.tensors = _none
    THEN [sample |-> _none, src |-> src]
    ELSE [sample |-> src.tensors, src |-> [src EXCEPT !.tensors = _none]]

\* next(self._source_iter): dispatch on the upstream iterator's class
SourceNext(src) ==
    IF src.kind = "tensors" THEN TensorsNext(src) ELSE SeqSourceNext(src)

\* ------------------------------------------------- strategies (_batch.py)
\* the registry in the order of the append calls
_STRATEGIES == <<"_DefaultStrategy", "_NumpyStrategy", "_TorchStrategy">>

is_supported(s, item_type) ==
    CASE s = "_DefaultStrategy" -> TRUE
      [] s = "_NumpyStrategy" -> item_type \in {"ndarray", "float", "int"}
      [] s = "_TorchStrategy" -> item_type = "Tensor"

\* _BatchHelper.__init__.chooser: the first strategy of the registry that
\* supports the type; "Unsupported" stands for the ValueError
chooser(t) ==
    LET ok == {i \in 1..Len(_STRATEGIES) : is_supported(_STRATEGIES[i], t)}
    IN IF ok = {} THEN "Unsupported"
       ELSE _STRATEGIES[CHOOSE i \in ok : \A j \in ok : i <= j]

\* _BatchHelper.__init__: one strategy per position of the sample; the
\* strategy is chosen from type(item)
BatchHelper(item_types) == [p \in 1..Len(item_types) |-> chooser(item_types[p])]

NoHelper == <<>>

\* no exception is propagating
NoError == ""

\* _BatchHelper.__init__ raises ValueError('Unsupported') when the chooser
\* finds no strategy for a position
HelperRaises(helper) == \E p \in 1..Len(helper) : helper[p] = "Unsupported"

\* a slip: the arity of the first sample decides, 1-tuples are unwrapped too
SqueezeByArity(sample) == Len(sample.items) = 1

\* `self._squeeze = not is_tuple`: decided on the first sample of the session
Squeeze(sample) == ~sample.is_tuple

\* _DefaultStrategy.make_batch for every position: [None] * batch_size
make_batch(helper, batch_size) ==
    [p \in 1..Len(helper) |-> [i \in 1..batch_size |-> None]]

\* _BatchHelper.batch_insert with _DefaultStrategy.batch_insert: batch[idx] = item
\* (idx is 0-based in the source, 1-based here)
batch_insert(batch, idx, items) ==
    [p \in 1..Len(batch) |-> [batch[p] EXCEPT ![idx] = items[p]]]

\* type(s) of the values of the model: every record value is a Python int
TypeOf(v) == "int"

\* ------------------------------------------------ _BatchIterator (_batch.py)
\* _BatchIterator.__init__
BatchIterator(source_iter, batch_size, dl) ==
    [source_iter |-> source_iter, batch_size |-> batch_size, drop_last |-> dl,
     batch |-> NoBatch, batch_counter |-> 0,
     batch_helper |-> NoHelper, squeeze |-> FALSE,
     \* the exception propagating out of the running call; none between calls
     raised |-> NoError]

\* a plausible slip: the partial batch is kept although drop_last is set
BatchOnExhaustedKeep(it) ==
    [it EXCEPT !.batch_counter = it.batch_size]

\* __next__, the branch `sample is self._none`
BatchOnExhausted(it) ==
    [it EXCEPT !.batch_counter = it.batch_size,
               !.batch = IF it.drop_last THEN NoBatch ELSE @]

\* __next__, the branch that places a sample in the running container
BatchOnSample(it, sample) ==
    LET helper == IF it.batch_helper = NoHelper
                  \* types = [type(s) for s in sample]; the helper then
                  \* takes type(item) of each of these types
                  THEN BatchHelper([p \in 1..Len(sample.items) |-> "type"])
                  ELSE it.batch_helper
        sq == IF it.batch_helper = NoHelper THEN Squeeze(sample) ELSE it.squeeze
        b0 == IF it.batch = NoBatch THEN make_batch(helper, it.batch_size) ELSE it.batch
    IN IF HelperRaises(helper)
       THEN [it EXCEPT !.raised = "ValueError"]
       ELSE IF Len(b0) # Len(sample.items)
       \* assert len(self._batch) == len(sample)
       THEN [it EXCEPT !.batch_helper = helper, !.squeeze = sq, !.batch = b0,
                       !.raised = "AssertionError"]
       ELSE [it EXCEPT !.batch_helper = helper, !.squeeze = sq,
                       !.batch = batch_insert(b0, it.batch_counter + 1, sample.items),
                       !.batch_counter = @ + 1]

\* __next__, the while loop
RECURSIVE BatchLoop(_)
BatchLoop(it) ==
    IF it.raised = NoError /\ it.batch_counter < it.batch_size
    THEN LET r == SourceNext(it.source_iter)
             it1 == [it EXCEPT !.source_iter = r.src]
         IN IF r.sample = _none
            THEN BatchLoop(BatchOnExhausted(it1))
            ELSE BatchLoop(BatchOnSample(it1, r.sample))
    ELSE it

\* _BatchIterator.__next__: the loop, the result and the finally block
BatchNext(it) ==
    LET it1 == BatchLoop(it)
        out == IF it1.raised # NoError \/ it1.batch = NoBatch THEN Stop
               ELSE IF it1.squeeze THEN it1.batch[1] ELSE it1.batch
    IN [out |-> out,
        \* the exception of the call, if any; out is then not returned
        raised |-> it1.raised,
        \* whether out is a tuple of containers
        tupled |-> ~it1.squeeze,
        it |-> [it1 EXCEPT !.batch_counter = 0, !.batch = NoBatch,
                           !.raised = NoError]]

\* ---------------------------------------------- _WindowIterator (_window.py)
\* _WindowIterator.__init__
WindowIterator(source_iter, sz, st, dl) ==
    [source_iter |-> source_iter, size |-> sz, stride |-> st, drop_last |-> dl,
     skip |-> 0, window |-> <<>>, batch_helper |-> NoHelper, squeeze |-> FALSE,
     \* the exception propagating out of the running call; none between calls
     raised |-> NoError]

\* __anext__, the inner `while self._skip > 0` loop; broke = left by break
RECURSIVE WindowSkipLoop(_)
WindowSkipLoop(it) ==
    IF it.skip > 0
    THEN LET r == SourceNext(it.source_iter)
             it1 == [it EXCEPT !.skip = @ - 1, !.source_iter = r.src]
         IN IF r.sample = _none
            THEN [it |-> it1, broke |-> TRUE]
            ELSE WindowSkipLoop(it1)
    ELSE [it |-> it, broke |-> FALSE]

\* a plausible slip: the window is cleared whatever drop_last says
WindowOnSkipExhaustedClear(it) ==
    [it EXCEPT !.window = <<>>]

\* __anext__, `if sample is self._none`: reached when the skip loop was left
\* by its break
WindowOnSkipExhausted(it) ==
    [it EXCEPT !.window = IF it.drop_last THEN <<>> ELSE @]

\* __anext__, the break of the else suite of the skip loop: it leaves the
\* outer while loop at once, so the window is kept whatever drop_last says
WindowOnExhausted(it) == it

\* __anext__, the branch that appends a sample to the window
WindowOnSample(it, sample) ==
    LET helper == IF it.batch_helper = NoHelper
                  THEN BatchHelper([p \in 1..Len(sample.items) |->
                                       TypeOf(sample.items[p])])
                  ELSE it.batch_helper
    IN IF HelperRaises(helper)
       THEN [it EXCEPT !.raised = "ValueError"]
       ELSE [it EXCEPT !.batch_helper = helper,
                       !.squeeze = IF it.batch_helper = NoHelper
                                   THEN Squeeze(sample) ELSE @,
                       !.window = Append(@, sample.items)]

\* __anext__, the outer while loop
RECURSIVE WindowLoop(_)
WindowLoop(it) ==
    IF it.raised = NoError /\ Len(it.window) < it.size
    THEN LET sk == WindowSkipLoop(it)
         IN IF sk.broke
            THEN WindowOnSkipExhausted(sk.it)
            ELSE LET r == SourceNext(sk.it.source_iter)
                     it1 == [sk.it EXCEPT !.source_iter = r.src]
                 IN IF r.sample = _none
                    THEN WindowOnExhausted(it1)
                    ELSE WindowLoop(WindowOnSample(it1, r.sample))
    ELSE it

\* __anext__, the container built from the window
RECURSIVE WindowFill(_, _, _)
WindowFill(batch, window, i) ==
    IF i > Len(window) THEN batch
    ELSE WindowFill(batch_insert(batch, i, window[i]), window, i + 1)

\* a slip: one record fewer than k is deleted
DelPrefixShort(window, k) ==
    SubSeq(window, k, Len(window))

\* `del window[:k]` of Python: a negative k counts from the end
DelPrefix(window, k) ==
    LET cut == IF k >= 0 THEN k ELSE Len(window) + k
        drop == IF cut < 0 THEN 0 ELSE IF cut > Len(window) THEN Len(window) ELSE cut
    IN SubSeq(window, drop + 1, Len(window))

\* a slip: the records between two windows are not counted for skipping
WindowAdvanceNoSkip(it) ==
    IF it.stride < Len(it.window)
    THEN [it EXCEPT !.window = DelPrefix(@, it.stride)]
    ELSE [it EXCEPT !.skip = 0, !.window = <<>>]

\* __anext__, the finally block
WindowAdvance(it) ==
    IF it.stride < Len(it.window)
    THEN [it EXCEPT !.window = DelPrefix(@, it.stride)]
    ELSE [it EXCEPT !.skip = it.stride - Len(it.window), !.window = <<>>]

\* _BatchHelper.batch_insert: assert len(sample) == len(self._stategies),
\* for every sample of the window that is inserted
WindowInsertRaises(helper, window) ==
    \E i \in 1..Len(window) : Len(window[i]) # Len(helper)

\* _WindowIterator.__anext__: the loop, the result and the finally block
WindowAnext(it) ==
    LET it1 == WindowLoop(it)
        stop == Len(it1.window) = 0 \/ it1.batch_helper = NoHelper
        raised == IF it1.raised # NoError THEN it1.raised
                  ELSE IF ~stop /\ WindowInsertRaises(it1.batch_helper, it1.window)
                  THEN "AssertionError"
                  ELSE NoError
        out == IF stop \/ raised # NoError THEN Stop
               ELSE LET batch == WindowFill(make_batch(it1.batch_helper, it1.size),
                                            it1.window, 1)
                    IN IF it1.squeeze THEN batch[1] ELSE batch
    IN [out |-> out,
        raised |-> raised,
        tupled |-> ~it1.squeeze,
        it |-> [WindowAdvance(it1) EXCEPT !.raised = NoError]]

\* ------------------------------- _WindowPaddedIterator (_window_padded.py)
\* self._source_iter = None
NoSource == [kind |-> "none", session_id |-> 0, tensors |-> _none, rest |-> <<>>]

\* _WindowPaddedIterator.__init__
WindowPaddedIterator(source_iter, sz, st, dl) ==
    [source_iter |-> source_iter, size |-> sz, stride |-> st, drop_last |-> dl,
     skip |-> 0, window |-> <<>>, batch_helper |-> NoHelper]

\* _SampleWrapper.next: the next upstream record in a wrapper, or a disposed
\* wrapper when the upstream is exhausted
SampleWrapperNext(src) ==
    LET r == SourceNext(src)
    IN [is_disposed |-> r.sample = _none, sample |-> r.sample, src |-> r.src]

\* __anext__, the skip loop with its else suite: the wrapper it ends on
RECURSIVE WindowPaddedSkipLoop(_)
WindowPaddedSkipLoop(it) ==
    LET w == SampleWrapperNext(it.source_iter)
    IN IF it.skip > 0
       THEN LET it1 == [it EXCEPT !.skip = @ - 1, !.source_iter = w.src]
            IN IF w.is_disposed
               THEN [it |-> it1, sample |-> w]
               ELSE WindowPaddedSkipLoop(it1)
       ELSE [it |-> [it EXCEPT !.source_iter = w.src], sample |-> w]

\* __anext__, the fill loop
RECURSIVE WindowPaddedLoop(_)
WindowPaddedLoop(it) ==
    IF it.source_iter # NoSource /\ Len(it.window) < it.size
    THEN LET r == WindowPaddedSkipLoop(it)
         IN IF r.sample.is_disposed
            THEN WindowPaddedLoop([r.it EXCEPT !.source_iter = NoSource,
                                               !.window = IF it.drop_last THEN <<>> ELSE @])
            ELSE WindowPaddedLoop([r.it EXCEPT !.window = Append(@, r.sample.sample)])
    ELSE it

\* _BatchPaddedHelper.make_batch: the container of the buffered samples
PaddedMakeBatch(window) == [i \in 1..Len(window) |-> window[i].items]

\* __anext__, the finally block
WindowPaddedAdvance(it) ==
    IF it.stride < Len(it.window)
    THEN [it EXCEPT !.window = DelPrefix(@, it.stride)]
    ELSE [it EXCEPT !.skip = it.stride - Len(it.window), !.window = <<>>]

\* _WindowPaddedIterator.__anext__
WindowPaddedAnext(it) ==
    LET it1 == WindowPaddedLoop(it)
        stop == Len(it1.window) = 0
        it2 == IF stop THEN it1 ELSE [it1 EXCEPT !.batch_helper = <<"_BatchPaddedHelper">>]
    IN [out |-> IF stop THEN Stop ELSE PaddedMakeBatch(it1.window),
        raised |-> NoError,
        tupled |-> IF stop THEN FALSE ELSE it1.window[1].is_tuple,
        it |-> WindowPaddedAdvance(it2)]

\* ------------------------------------------------- one session, one upstream
\* BatchDataOperation.__iter__ and WindowDataOperation.get_iter over the same
\* finite upstream, each with its own source iterator
InitGroup ==
    /\ n \in 0..MaxN
    /\ size \in 1..MaxSize
    /\ stride \in 1..MaxStride
    /\ drop_last \in BOOLEAN
    /\ batchIt = BatchIterator(SeqSource(Upstream(n)), size, drop_last)
    /\ batchOut = <<>>
    /\ batchStops = 0
    /\ windowIt = WindowIterator(SeqSource(Upstream(n)), size, stride, drop_last)
    /\ windowOut = <<>>
    /\ windowStops = 0
    /\ MapIdle /\ PrefetchIdle /\ ShuffleIdle /\ SessionsIdle
    /\ IterIdle /\ ConstructIdle /\ SyncIdle

\* one pull on the Batch iterator
BatchPull ==
    /\ batchStops < MaxStops
    /\ LET r == BatchNext(batchIt)
       IN /\ batchIt' = r.it
          /\ IF r.raised # NoError
             THEN UNCHANGED <<batchOut, batchStops>>
             ELSE IF r.out = Stop
             THEN batchStops' = batchStops + 1 /\ UNCHANGED batchOut
             ELSE batchOut' = Append(batchOut, r.out) /\ UNCHANGED batchStops
    /\ UNCHANGED <<n, size, stride, drop_last, windowIt, windowOut, windowStops>>
    /\ UNCHANGED <<mapVars, pfVars, shVars, sessVars, moreVars>>

\* one pull on the Window iterator
WindowPull ==
    /\ windowStops < MaxStops
    /\ LET r == WindowAnext(windowIt)
       IN /\ windowIt' = r.it
          /\ IF r.raised # NoError
             THEN UNCHANGED <<windowOut, windowStops>>
             ELSE IF r.out = Stop
             THEN windowStops' = windowStops + 1 /\ UNCHANGED windowOut
             ELSE windowOut' = Append(windowOut, r.out) /\ UNCHANGED windowStops
    /\ UNCHANGED <<n, size, stride, drop_last, batchIt, batchOut, batchStops>>
    /\ UNCHANGED <<mapVars, pfVars, shVars, sessVars, moreVars>>

NextGroup == BatchPull \/ WindowPull

SpecGroup == InitGroup /\ [][NextGroup]_vars

\* -------------------------------------------- one iterator, any upstream
\* the shapes of an upstream record: a bare value, a 1-tuple, a 2-tuple
Shapes == {"bare", "one", "two"}

\* the i-th upstream record, of the given shape
RecOf(shape, i) ==
    CASE shape = "bare" -> Rec(i)
      [] shape = "one" -> [is_tuple |-> TRUE, items |-> <<i>>]
      [] shape = "two" -> [is_tuple |-> TRUE, items |-> <<i, i>>]

\* the upstreams: every sequence of at most MaxIterN records of any shapes
Upstreams ==
    UNION {{[i \in 1..k |-> RecOf(sh[i], i)] : sh \in [1..k -> Shapes]} : k \in 0..MaxIterN}

\* the source iterator an operator iterator pulls from: a sequence of
\* records, or the _TensorsIterator over the first of them
LeafIterator(leaf, upstream) ==
    IF leaf = "tensors" THEN TensorsIterator(1, upstream[1]) ELSE SeqSource(upstream)

\* the iterator classes
IterKinds == {"batch", "window", "padded", "tensors"}

\* the iterator of the configuration, as its operator's get_iter builds it
IterOf(cfg) ==
    LET src == LeafIterator(cfg.leaf, cfg.upstream)
    IN CASE cfg.kind = "batch" -> BatchIterator(src, cfg.size, cfg.drop_last)
         [] cfg.kind = "window" -> WindowIterator(src, cfg.size, cfg.stride, cfg.drop_last)
         [] cfg.kind = "padded" ->
               WindowPaddedIterator(src, cfg.size, cfg.stride, cfg.drop_last)
         [] cfg.kind = "tensors" -> TensorsIterator(1, cfg.upstream[1])

\* one pull on a _TensorsIterator by the consumer
TensorsAnext(it) ==
    LET r == TensorsNext(it)
    IN [out |-> IF r.sample = _none THEN Stop ELSE r.sample.items,
        raised |-> NoError,
        tupled |-> r.sample.is_tuple,
        it |-> r.src]

\* __next__ / __anext__ of the iterator's class
IterNext(kind, it) ==
    CASE kind = "batch" -> BatchNext(it)
      [] kind = "window" -> WindowAnext(it)
      [] kind = "padded" -> WindowPaddedAnext(it)
      [] kind = "tensors" -> TensorsAnext(it)

InitIter ==
    /\ GroupIdle /\ MapIdle /\ PrefetchIdle /\ ShuffleIdle /\ SessionsIdle
    /\ ConstructIdle /\ SyncIdle
    /\ \E kind \in IterKinds, sz \in 1..MaxSize, st \in 1..MaxStride,
          dl \in BOOLEAN, leaf \in {"seq", "tensors"}, up \in Upstreams :
          /\ kind = "batch" => st = 1
          /\ kind = "tensors" => sz = 1 /\ st = 1 /\ dl /\ leaf = "tensors"
          /\ leaf = "tensors" => Len(up) = 1
          /\ itCfg = [kind |-> kind, size |-> sz, stride |-> st, drop_last |-> dl,
                      leaf |-> leaf, upstream |-> up]
    /\ itIt = IterOf(itCfg)
    /\ itOut = <<>>
    /\ itStops = 0
    /\ itErrs = 0

\* one pull on the iterator: a container, exhaustion, or an error
IterPull ==
    /\ itStops < MaxStops
    /\ LET r == IterNext(itCfg.kind, itIt)
       IN /\ itIt' = r.it
          /\ IF r.raised # NoError
             THEN itErrs' = itErrs + 1 /\ UNCHANGED <<itOut, itStops>>
             ELSE IF r.out = Stop
             THEN itStops' = itStops + 1 /\ UNCHANGED <<itOut, itErrs>>
             ELSE /\ itOut' = Append(itOut, [out |-> r.out, tupled |-> r.tupled])
                  /\ UNCHANGED <<itStops, itErrs>>
    /\ UNCHANGED <<itCfg, groupVars, mapVars, pfVars, shVars, sessVars,
                   ctorVars, syncVars>>

NextIter == IterPull

SpecIter == InitIter /\ [][NextIter]_vars

\* ------------------------------- Window sessions over accepted arguments
\* Dataset.window / Dataset.window_padded accept every integer size and
\* stride; the session is that of the operator they build
InitAccepted ==
    /\ GroupIdle /\ MapIdle /\ PrefetchIdle /\ ShuffleIdle /\ SessionsIdle
    /\ ConstructIdle /\ SyncIdle
    /\ \E kind \in {"window", "padded"}, sz \in -1..MaxSize, st \in -1..MaxStride,
          dl \in BOOLEAN, k \in 0..MaxIterN :
          itCfg = [kind |-> kind, size |-> sz, stride |-> st, drop_last |-> dl,
                   leaf |-> "seq", upstream |-> Upstream(k)]
    /\ itIt = IterOf(itCfg)
    /\ itOut = <<>>
    /\ itStops = 0
    /\ itErrs = 0

\* one pull of the consumer, who gives up after MaxPulls pulls
AcceptedPull ==
    /\ Len(itOut) + itStops + itErrs < MaxPulls
    /\ LET r == IterNext(itCfg.kind, itIt)
       IN /\ itIt' = r.it
          /\ IF r.raised # NoError
             THEN itErrs' = itErrs + 1 /\ UNCHANGED <<itOut, itStops>>
             ELSE IF Len(r.out) = 0
             THEN itStops' = itStops + 1 /\ UNCHANGED <<itOut, itErrs>>
             ELSE /\ itOut' = Append(itOut, [out |-> r.out, tupled |-> r.tupled])
                  /\ UNCHANGED <<itStops, itErrs>>
    /\ UNCHANGED <<itCfg, groupVars, mapVars, pfVars, shVars, sessVars,
                   ctorVars, syncVars>>

NextAccepted == AcceptedPull

SpecAccepted == InitAccepted /\ [][NextAccepted]_vars

\* ------------------------------------------------------------ Dataset.map
\* os.cpu_count() of the host
CpuCount == 2

\* the num_parallel_calls argument: None, or an integer
NoCalls == [is_none |-> TRUE, value |-> 0]
Calls(k) == [is_none |-> FALSE, value |-> k]

\* Dataset.map: None becomes 0, a negative count becomes os.cpu_count()
MapParallelCalls(num_parallel_calls) ==
    IF num_parallel_calls.is_none THEN 0
    ELSE IF num_parallel_calls.value < 0 THEN CpuCount
    ELSE num_parallel_calls.value

\* map_fn of the tests
map_fn(x) == x * x

\* ------------------------------------------- Parallel Map Scheduler (4.5)
\* the marker held for a sequence index whose invocation raised and is ignored
Skipped == 0

MapIterator(source_iter) ==
    [source_iter |-> source_iter,
     seq |-> 0,              \* sequence index of the last launched invocation
     running |-> {},         \* <<index, argument>> of the invocations not yet complete
     results |-> <<>>,       \* completed, not yet emitted: index :> result
     expected |-> 1,         \* ordered mode: the next index to emit
     upstream_done |-> FALSE,
     state |-> "RUNNING"]    \* RUNNING, DONE or FAILED

\* launched but not yet emitted
MapOutstanding(it) == Cardinality(it.running) + Cardinality(DOMAIN it.results)

\* a slip: one invocation more than K may be launched
MapFillingOver(it, cfg) ==
    /\ it.state = "RUNNING"
    /\ cfg.K >= 1
    /\ ~it.upstream_done
    /\ MapOutstanding(it) <= cfg.K

\* FILLING: fewer than K outstanding and the upstream not exhausted
MapFilling(it, cfg) ==
    /\ it.state = "RUNNING"
    /\ cfg.K >= 1
    /\ ~it.upstream_done
    /\ MapOutstanding(it) < cfg.K

\* FILLING: pull the upstream and launch an invocation with the next index
MapOnLaunch(it) ==
    LET r == SourceNext(it.source_iter)
        it1 == [it EXCEPT !.source_iter = r.src]
    IN IF r.sample = _none
       THEN [it1 EXCEPT !.upstream_done = TRUE]
       ELSE [it1 EXCEPT !.seq = @ + 1,
                        !.running = @ \cup {<<it.seq + 1, r.sample.items[1]>>}]

\* a slip: a result that completes while another is pending replaces it
MapStoreLossy(results, i, v) ==
    (i :> v)

\* a completed invocation joins the pending results
MapStore(results, i, v) ==
    (i :> v) @@ results

\* a slip: the index of an ignored failure is forgotten in ordered mode too
MapOnIgnoredForget(it, cfg, i) == it

\* an ignored failure: its index is skipped, in ordered mode when its turn comes
MapOnIgnored(it, cfg, i) ==
    IF cfg.ordered
    THEN [it EXCEPT !.results = MapStore(@, i, Skipped)]
    ELSE it

\* an invocation completes: a result, an ignored error, or a fatal error that
\* cancels the other outstanding invocations
MapOnComplete(it, cfg, inv) ==
    LET it1 == [it EXCEPT !.running = @ \ {inv}]
    IN IF inv[2] \in cfg.fails
       THEN IF cfg.ignore_errors
            THEN MapOnIgnored(it1, cfg, inv[1])
            ELSE [it1 EXCEPT !.running = {}, !.results = <<>>, !.state = "FAILED"]
       ELSE [it1 EXCEPT !.results = MapStore(@, inv[1], map_fn(inv[2]))]

\* a slip: ordered mode emits any completed result
MapEmittableAny(it, cfg) ==
    {i \in DOMAIN it.results : it.results[i] # Skipped}

\* the indices whose result may be emitted now: ordered mode only the
\* next-expected index, unordered mode any completed one
MapEmittable(it, cfg) ==
    {i \in DOMAIN it.results :
        /\ it.results[i] # Skipped
        /\ cfg.ordered => i = it.expected}

\* the pending results without index i
MapWithout(results, i) ==
    [j \in DOMAIN results \ {i} |-> results[j]]

\* emission of index i frees its capacity and advances the expected index
MapOnEmit(it, cfg, i) ==
    [it EXCEPT !.results = MapWithout(@, i),
               !.expected = IF cfg.ordered THEN i + 1 ELSE @]

\* ordered mode: the next-expected index failed and is skipped over
MapOnSkip(it) ==
    [it EXCEPT !.results = MapWithout(@, it.expected), !.expected = @ + 1]

\* serial execution (K = 0): one upstream record is pulled and transformed
\* in the consumer's pull, no background task
MapOnSerial(it, cfg) ==
    LET r == SourceNext(it.source_iter)
        it1 == [it EXCEPT !.source_iter = r.src]
    IN IF r.sample = _none
       THEN [out |-> Stop, it |-> [it1 EXCEPT !.upstream_done = TRUE, !.state = "DONE"]]
       ELSE IF r.sample.items[1] \in cfg.fails
            THEN [out |-> Stop,
                  it |-> IF cfg.ignore_errors THEN it1 ELSE [it1 EXCEPT !.state = "FAILED"]]
            ELSE [out |-> <<map_fn(r.sample.items[1])>>, it |-> it1]

InitMap ==
    /\ GroupIdle /\ PrefetchIdle /\ ShuffleIdle /\ SessionsIdle
    /\ IterIdle /\ ConstructIdle /\ SyncIdle
    /\ \E k \in 0..MaxMapN, calls \in {NoCalls} \cup {Calls(c) : c \in -1..MaxCalls},
          ordered \in BOOLEAN, ignore_errors \in BOOLEAN :
          \E fails \in SUBSET (1..k) :
             mapCfg = [n |-> k, num_parallel_calls |-> calls,
                       K |-> MapParallelCalls(calls), ordered |-> ordered,
                       ignore_errors |-> ignore_errors, fails |-> fails]
    /\ mapIt = MapIterator(SeqSource(Upstream(mapCfg.n)))
    /\ mapOut = <<>>

MapSerial ==
    /\ mapIt.state = "RUNNING"
    /\ mapCfg.K = 0
    /\ LET r == MapOnSerial(mapIt, mapCfg)
       IN mapIt' = r.it /\ mapOut' = mapOut \o r.out
    /\ UNCHANGED <<mapCfg, groupVars, pfVars, shVars, sessVars, moreVars>>

MapLaunch ==
    /\ MapFilling(mapIt, mapCfg)
    /\ mapIt' = MapOnLaunch(mapIt)
    /\ UNCHANGED <<mapCfg, mapOut, groupVars, pfVars, shVars, sessVars, moreVars>>

MapComplete ==
    /\ mapIt.state = "RUNNING"
    /\ \E inv \in mapIt.running : mapIt' = MapOnComplete(mapIt, mapCfg, inv)
    /\ UNCHANGED <<mapCfg, mapOut, groupVars, pfVars, shVars, sessVars, moreVars>>

MapEmit ==
    /\ mapIt.state = "RUNNING"
    /\ \E i \in MapEmittable(mapIt, mapCfg) :
          /\ mapOut' = Append(mapOut, mapIt.results[i])
          /\ mapIt' = MapOnEmit(mapIt, mapCfg, i)
    /\ UNCHANGED <<mapCfg, groupVars, pfVars, shVars, sessVars, moreVars>>

MapSkip ==
    /\ mapIt.state = "RUNNING"
    /\ mapCfg.ordered
    /\ mapIt.expected \in DOMAIN mapIt.results
    /\ mapIt.results[mapIt.expected] = Skipped
    /\ mapIt' = MapOnSkip(mapIt)
    /\ UNCHANGED <<mapCfg, mapOut, groupVars, pfVars, shVars, sessVars, moreVars>>

\* DONE: upstream exhausted and nothing outstanding
MapDone ==
    /\ mapIt.state = "RUNNING"
    /\ mapCfg.K >= 1
    /\ mapIt.upstream_done
    /\ MapOutstanding(mapIt) = 0
    /\ mapIt' = [mapIt EXCEPT !.state = "DONE"]
    /\ UNCHANGED <<mapCfg, mapOut, groupVars, pfVars, shVars, sessVars, moreVars>>

NextMap == MapSerial \/ MapLaunch \/ MapComplete \/ MapEmit \/ MapSkip \/ MapDone

SpecMap == InitMap /\ [][NextMap]_vars

\* the scheduler runs every ready task and the consumer keeps pulling
FairSpecMap == SpecMap /\ WF_vars(NextMap)

\* ------------------------------------------- operators and Dataset.__aiter__
\* an operator object: its class, its buffer_size (Prefetch) and the records
\* of the leaf source under it
LeafSource(records) == [op |-> "Source", buffer_size |-> 0, records |-> records]

\* Dataset.prefetch / PrefetchDataOperation(source=..., buffer_size=...)
PrefetchDataOperation(source, buffer_size) ==
    [op |-> "Prefetch", buffer_size |-> buffer_size, records |-> source.records]

\* Dataset.__aiter__: a source that is not a Prefetch operator is wrapped in
\* a Prefetch operator of buffer_size 1
DatasetAiterSource(source) ==
    IF source.op # "Prefetch" THEN PrefetchDataOperation(source, 1) ELSE source

\* ------------------------------------------------- Prefetch Operator (4.6)
PrefetchIterator(operation) ==
    [source_iter |-> SeqSource(operation.records),
     buffer_size |-> operation.buffer_size,
     buffer |-> <<>>,            \* the FIFO of completed upstream results
     upstream_done |-> FALSE]

\* the background loop pulls while the buffer has room and the upstream has
\* not signalled exhaustion
PrefetchCanFill(it) ==
    ~it.upstream_done /\ Len(it.buffer) < it.buffer_size

\* one turn of the background pull loop
PrefetchOnFill(it) ==
    LET r == SourceNext(it.source_iter)
        it1 == [it EXCEPT !.source_iter = r.src]
    IN IF r.sample = _none
       THEN [it1 EXCEPT !.upstream_done = TRUE]
       ELSE [it1 EXCEPT !.buffer = Append(@, r.sample)]

\* a slip: the consumer is handed the newest buffered result
PrefetchPopNewest(buffer) ==
    [item |-> buffer[Len(buffer)], rest |-> SubSeq(buffer, 1, Len(buffer) - 1)]

\* the consumer reads the oldest buffered result
PrefetchPop(buffer) ==
    [item |-> Head(buffer), rest |-> Tail(buffer)]

InitPrefetch ==
    /\ GroupIdle /\ MapIdle /\ ShuffleIdle /\ SessionsIdle
    /\ IterIdle /\ ConstructIdle /\ SyncIdle
    /\ \E k \in 0..MaxN, b \in 0..MaxBuffer :
          \* b = 0: the Dataset does not end in a Prefetch operator
          pfCfg = IF b = 0 THEN LeafSource(Upstream(k))
                  ELSE PrefetchDataOperation(LeafSource(Upstream(k)), b)
    /\ pfIt = PrefetchIterator(DatasetAiterSource(pfCfg))
    /\ pfOut = <<>>
    /\ pfStops = 0

\* the background pull loop takes one upstream result
PrefetchFill ==
    /\ PrefetchCanFill(pfIt)
    /\ pfIt' = PrefetchOnFill(pfIt)
    /\ UNCHANGED <<pfCfg, pfOut, pfStops, groupVars, mapVars, shVars, sessVars, moreVars>>

\* the consumer's pull finds a buffered result
PrefetchRead ==
    /\ pfIt.buffer # <<>>
    /\ LET r == PrefetchPop(pfIt.buffer)
       IN /\ pfOut' = Append(pfOut, r.item.items[1])
          /\ pfIt' = [pfIt EXCEPT !.buffer = r.rest]
    /\ UNCHANGED <<pfCfg, pfStops, groupVars, mapVars, shVars, sessVars, moreVars>>

\* the consumer's pull finds the buffer empty and the upstream exhausted
PrefetchExhausted ==
    /\ pfIt.buffer = <<>>
    /\ pfIt.upstream_done
    /\ pfStops < MaxStops
    /\ pfStops' = pfStops + 1
    /\ UNCHANGED <<pfCfg, pfIt, pfOut, groupVars, mapVars, shVars, sessVars, moreVars>>

NextPrefetch == PrefetchFill \/ PrefetchRead \/ PrefetchExhausted

SpecPrefetch == InitPrefetch /\ [][NextPrefetch]_vars

\* -------------------------------------------------- Shuffle Operator (4.4)
\* the generator of the model: a linear congruential generator of full period
RngModulus == 8

RngNext(rng) == (5 * rng + 3) % RngModulus

\* a uniformly random occupied slot, drawn from the generator
RngSlot(rng, occupied) == (rng % occupied) + 1

\* the seed argument: None, or an integer
NoSeed == [is_none |-> TRUE, value |-> 0]
Seed(v) == [is_none |-> FALSE, value |-> v]

ShuffleIterator(source_iter, buffer_size, rng) ==
    [source_iter |-> source_iter, buffer_size |-> buffer_size,
     buffer |-> <<>>, rng |-> rng, filled |-> FALSE, done |-> FALSE]

\* fill phase: pull until the buffer is full or the upstream is exhausted
RECURSIVE ShuffleFill(_)
ShuffleFill(it) ==
    IF Len(it.buffer) < it.buffer_size
    THEN LET r == SourceNext(it.source_iter)
             it1 == [it EXCEPT !.source_iter = r.src]
         IN IF r.sample = _none THEN [it1 EXCEPT !.filled = TRUE]
            ELSE ShuffleFill([it1 EXCEPT !.buffer = Append(@, r.sample)])
    ELSE [it EXCEPT !.filled = TRUE]

\* the buffer without slot idx
ShuffleRemove(buffer, idx) ==
    SubSeq(buffer, 1, idx - 1) \o SubSeq(buffer, idx + 1, Len(buffer))

\* a slip: the replacement record goes to the first slot, not the vacated one
ShuffleRefillFirst(buffer, idx, sample) ==
    [buffer EXCEPT ![1] = sample]

\* the replacement record takes the vacated slot
ShuffleRefill(buffer, idx, sample) ==
    [buffer EXCEPT ![idx] = sample]

\* one request: fill if not yet filled, then emit a random buffered record
\* and pull one replacement; an empty buffer signals exhaustion
ShuffleNext(it) ==
    LET it1 == IF it.filled THEN it ELSE ShuffleFill(it)
    IN IF it1.buffer = <<>>
       THEN [out |-> Stop, it |-> [it1 EXCEPT !.done = TRUE]]
       ELSE LET idx == RngSlot(it1.rng, Len(it1.buffer))
                r == SourceNext(it1.source_iter)
            IN [out |-> <<it1.buffer[idx].items[1]>>,
                it |-> [it1 EXCEPT !.rng = RngNext(@),
                                   !.source_iter = r.src,
                                   !.buffer = IF r.sample = _none
                                              THEN ShuffleRemove(@, idx)
                                              ELSE ShuffleRefill(@, idx, r.sample)]]

\* two sessions over the same Shuffle operator; without a configured seed
\* each session's generator starts in an arbitrary state
InitShuffle ==
    /\ GroupIdle /\ MapIdle /\ PrefetchIdle /\ SessionsIdle
    /\ IterIdle /\ ConstructIdle /\ SyncIdle
    /\ \E k \in 0..MaxShuffleN, b \in 2..MaxShuffleBuffer,
          seed \in {NoSeed} \cup {Seed(v) : v \in 0..(RngModulus - 1)} :
          shCfg = [n |-> k, buffer_size |-> b, seed |-> seed]
    /\ \E r \in [1..2 -> 0..(RngModulus - 1)] :
          /\ ~shCfg.seed.is_none => \A s \in 1..2 : r[s] = shCfg.seed.value
          /\ shIt = [s \in 1..2 |->
                        ShuffleIterator(SeqSource(Upstream(shCfg.n)),
                                        shCfg.buffer_size, r[s])]
    /\ shOut = [s \in 1..2 |-> <<>>]

\* one pull of session s on its Shuffle iterator
ShufflePull(s) ==
    /\ ~shIt[s].done
    /\ LET r == ShuffleNext(shIt[s])
       IN /\ shIt' = [shIt EXCEPT ![s] = r.it]
          /\ shOut' = [shOut EXCEPT ![s] = @ \o r.out]
    /\ UNCHANGED <<shCfg, groupVars, mapVars, pfVars, sessVars, moreVars>>

NextShuffle == \E s \in 1..2 : ShufflePull(s)

SpecShuffle == InitShuffle /\ [][NextShuffle]_vars

\* ----------------------------------- sessions over one operator graph
\* TensorsDataSource.get_iter
TensorsGetIter(session_id, t) == TensorsIterator(session_id, t)

\* a slip: the operator keeps one iterator and hands it to every session
WindowGetIterShared(its, session_id, t, sz, st, dl) ==
    IF its = <<>>
    THEN [iterators |-> <<WindowIterator(TensorsGetIter(session_id, t), sz, st, dl)>>,
          iter |-> 1]
    ELSE [iterators |-> its, iter |-> 1]

\* WindowDataOperation.get_iter: a new _WindowIterator over a new iterator of
\* the source; iter is the reference to the new object
WindowGetIter(its, session_id, t, sz, st, dl) ==
    [iterators |-> Append(its, WindowIterator(TensorsGetIter(session_id, t), sz, st, dl)),
     iter |-> Len(its) + 1]

\* BatchDataOperation has __iter__ and no get_iter: the call raises
\* AttributeError and no iterator is created
BatchGetIter(its, session_id) ==
    [iterators |-> its, iter |-> 0, raised |-> "AttributeError"]

\* source.get_iter(session_id) on the operator the Dataset ends in
ChainGetIter(kind, its, session_id, t, sz, st, dl) ==
    IF kind = "Batch"
    THEN BatchGetIter(its, session_id)
    ELSE LET g == WindowGetIter(its, session_id, t, sz, st, dl)
         IN [iterators |-> g.iterators, iter |-> g.iter, raised |-> NoError]

\* the session identifiers uuid4 may return
SessionIds == 1..2

NoSession == [session_id |-> 0, iter |-> 0, out |-> <<>>, stops |-> 0, raised |-> NoError]

\* Dataset.from_tensors(...).window(size, stride, drop_last=...): one
\* Dataset, iterated by two top-level requests
InitSessions ==
    /\ n = 1
    /\ size \in 1..MaxSize
    /\ stride \in 1..MaxStride
    /\ drop_last \in BOOLEAN
    /\ batchIt = <<>> /\ batchOut = <<>> /\ batchStops = 0
    /\ windowIt = <<>> /\ windowOut = <<>> /\ windowStops = 0
    /\ MapIdle /\ PrefetchIdle /\ ShuffleIdle
    /\ IterIdle /\ ConstructIdle /\ SyncIdle
    /\ \E arity \in 1..MaxArity :
          tensors = [is_tuple |-> TRUE, items |-> [p \in 1..arity |-> p]]
    /\ iterators = <<>>
    /\ sessions = [s \in 1..2 |-> NoSession]
    /\ chain \in {"Window", "Batch"}

\* Dataset.__aiter__ and _DatasetAsyncIterator.__init__: a new session id,
\* handed to get_iter of the operator chain
DatasetAiter(s) ==
    /\ sessions[s].session_id = 0
    /\ \E id \in SessionIds \ {sessions[t].session_id : t \in 1..2} :
          LET g == ChainGetIter(chain, iterators, id, tensors, size, stride, drop_last)
          IN /\ iterators' = g.iterators
             /\ sessions' = [sessions EXCEPT ![s].session_id = id, ![s].iter = g.iter,
                                             ![s].raised = g.raised]
    /\ UNCHANGED <<tensors, chain, groupVars, mapVars, pfVars, shVars, moreVars>>

\* one pull of session s, which reaches the session's Window iterator
SessionPull(s) ==
    /\ sessions[s].iter # 0
    /\ sessions[s].stops < MaxStops
    /\ LET r == WindowAnext(iterators[sessions[s].iter])
       IN /\ iterators' = [iterators EXCEPT ![sessions[s].iter] = r.it]
          /\ sessions' = IF r.out = Stop
                         THEN [sessions EXCEPT ![s].stops = @ + 1]
                         ELSE [sessions EXCEPT ![s].out = Append(@, r.out)]
    /\ UNCHANGED <<tensors, chain, groupVars, mapVars, pfVars, shVars, moreVars>>

NextSessions == \E s \in 1..2 : DatasetAiter(s) \/ SessionPull(s)

SpecSessions == InitSessions /\ [][NextSessions]_vars

\* ------------------------------------------------------------ properties
\* the records held by a container: its filled slots in order
Records(container) == SelectSeq(container, LAMBDA x : x # None)

RECURSIVE Concat(_)
Concat(groups) ==
    IF groups = <<>> THEN <<>> ELSE Head(groups) \o Concat(Tail(groups))

\* C1: with drop_last set, the Batch iterator emits floor(n/b) batches before
\* it signals exhaustion, every batch holds exactly b records, and the
\* batches concatenated are the first b*floor(n/b) upstream records in order.
C1_BatchDropLast ==
    drop_last =>
        /\ Len(batchOut) <= n \div size
        /\ \A k \in 1..Len(batchOut) :
              /\ Len(batchOut[k]) = size
              /\ Len(Records(batchOut[k])) = size
        /\ Concat(batchOut) = [i \in 1..(size * Len(batchOut)) |-> i]
        /\ batchStops > 0 => Len(batchOut) = n \div size

C1_Witness ==
    /\ drop_last
    /\ batchStops > 0
    /\ n % size # 0
    /\ Len(batchOut) >= 2

\* C2: with drop_last unset and n mod b # 0, the last batch emitted before
\* exhaustion follows the floor(n/b) full batches and has size n mod b, with
\* no unfilled slot.
C2_BatchPartialTrimmed ==
    (~drop_last /\ n % size # 0 /\ batchStops > 0) =>
        /\ Len(batchOut) = n \div size + 1
        /\ Len(batchOut[Len(batchOut)]) = n % size
        /\ \A i \in 1..Len(batchOut[Len(batchOut)]) :
              batchOut[Len(batchOut)][i] # None

\* C3: with stride 1, drop_last set and n >= s, the Window iterator emits
\* n - s + 1 windows before exhaustion, the i-th holding records i .. i+s-1.
C3_WindowStrideOne ==
    (drop_last /\ stride = 1 /\ n >= size) =>
        /\ Len(windowOut) <= n - size + 1
        /\ \A i \in 1..Len(windowOut) :
              windowOut[i] = [j \in 1..size |-> i - 1 + j]
        /\ windowStops > 0 => Len(windowOut) = n - size + 1

\* C4: window(size=s, stride=s) and batch(batch_size=s) with the same
\* drop_last emit the same number of groups, the k-th of each holding the
\* same upstream records in the same order.
C4_WindowTilesLikeBatch ==
    (stride = size /\ batchStops > 0 /\ windowStops > 0) =>
        /\ Len(windowOut) = Len(batchOut)
        /\ \A k \in 1..Len(windowOut) :
              k <= Len(batchOut) => Records(windowOut[k]) = Records(batchOut[k])

\* the results of the inputs 1..k that do not raise, in input order
MapExpected(k, fails) ==
    LET ok == SelectSeq([i \in 1..k |-> i], LAMBDA x : x \notin fails)
    IN [i \in 1..Len(ok) |-> map_fn(ok[i])]

IsPrefix(s, t) == Len(s) <= Len(t) /\ s = SubSeq(t, 1, Len(s))

SeqToBag(s) == [v \in {s[i] : i \in 1..Len(s)} |-> Cardinality({i \in 1..Len(s) : s[i] = v})]

\* C5: ordered map over an fn that does not raise: the outputs are
\* fn(input[1]), fn(input[2]), ... in this order, one per input record, for
\* every num_parallel_calls and every order of completion.
C5_MapOrdered ==
    (mapCfg # <<>> /\ mapCfg.ordered /\ mapCfg.fails = {}) =>
        /\ IsPrefix(mapOut, MapExpected(mapCfg.n, {}))
        /\ \A i \in 1..Len(mapOut) : mapOut[i] = map_fn(i)
        /\ mapIt.state = "DONE" => Len(mapOut) = mapCfg.n

C5_Witness ==
    /\ mapCfg # <<>> /\ mapCfg.ordered /\ mapCfg.fails = {}
    /\ mapCfg.K >= 2 /\ mapCfg.n >= 3
    /\ mapIt.state = "RUNNING"
    /\ DOMAIN mapIt.results # {} /\ mapIt.expected \notin DOMAIN mapIt.results
    /\ Len(mapOut) >= 1

\* C6: unordered map with K >= 1 over an fn that does not raise: the emitted
\* outputs are, as a multiset, { fn(x) : x in input }; none lost, none twice.
C6_MapUnordered ==
    (mapCfg # <<>> /\ ~mapCfg.ordered /\ mapCfg.K >= 1 /\ mapCfg.fails = {}) =>
        /\ SeqToBag(mapOut) \sqsubseteq SeqToBag(MapExpected(mapCfg.n, {}))
        /\ mapIt.state = "DONE" => SeqToBag(mapOut) = SeqToBag(MapExpected(mapCfg.n, {}))

C6_Witness ==
    /\ mapCfg # <<>> /\ ~mapCfg.ordered /\ mapCfg.K >= 2 /\ mapCfg.fails = {}
    /\ mapIt.state = "DONE"
    /\ Len(mapOut) >= 3
    /\ mapOut[1] > mapOut[2]

\* C10, the safety part: with ignore_errors no error surfaces and only results
\* of non-raising inputs are emitted, in input order in ordered mode, each
\* once; at DONE all of them have been emitted.
C10_Safe ==
    (mapCfg # <<>> /\ mapCfg.ignore_errors) =>
        /\ mapIt.state # "FAILED"
        /\ SeqToBag(mapOut) \sqsubseteq SeqToBag(MapExpected(mapCfg.n, mapCfg.fails))
        /\ (mapCfg.ordered \/ mapCfg.K = 0) =>
               IsPrefix(mapOut, MapExpected(mapCfg.n, mapCfg.fails))
        /\ mapIt.state = "DONE" =>
               SeqToBag(mapOut) = SeqToBag(MapExpected(mapCfg.n, mapCfg.fails))

\* C10: with ignore_errors a map session emits exactly the results of the
\* inputs on which fn does not raise and surfaces no error, in input order in
\* ordered mode, and it reaches DONE: it never waits forever on the index of
\* a failed invocation.
C10_IgnoreErrors ==
    /\ []C10_Safe
    /\ (mapCfg # <<>> /\ mapCfg.ignore_errors) ~> (mapIt.state = "DONE")

C10_Witness ==
    /\ mapCfg # <<>> /\ mapCfg.ignore_errors /\ mapCfg.ordered /\ mapCfg.K >= 2
    /\ mapCfg.fails = {2}
    /\ mapIt.state = "DONE"
    /\ Len(mapOut) = 2

\* the containers a Window iterator returns when it is pulled alone until it
\* signals exhaustion (at most fuel containers)
RECURSIVE SoloWindows(_, _)
SoloWindows(it, fuel) ==
    LET r == WindowAnext(it)
    IN IF r.out = Stop \/ fuel = 0 THEN <<>>
       ELSE <<r.out>> \o SoloWindows(r.it, fuel - 1)

SoloSession ==
    SoloWindows(WindowIterator(TensorsGetIter(0, tensors), size, stride, drop_last),
                size + 1)

\* C7: two sessions started on the same Dataset: under every interleaving of
\* their pulls each session emits the sequence it emits when run alone.
C7_SessionsIndependent ==
    \A s \in DOMAIN sessions :
        sessions[s].iter # 0 =>
            /\ IsPrefix(sessions[s].out, SoloSession)
            /\ sessions[s].stops > 0 => sessions[s].out = SoloSession

C7_Witness ==
    /\ sessions # <<>>
    /\ sessions[1].stops > 0 /\ sessions[2].stops > 0
    /\ Len(sessions[1].out) >= 1 /\ Len(sessions[2].out) >= 1
    /\ size >= 2

\* the values of the records of the upstream under the Prefetch stage
PrefetchUpstream == [i \in 1..Len(pfCfg.records) |-> pfCfg.records[i].items[1]]

\* C8: the consumer of a Prefetch stage reads the upstream sequence in
\* upstream order, nothing dropped, duplicated or reordered, and exhaustion
\* only after the whole sequence.
C8_PrefetchFifo ==
    pfCfg # <<>> =>
        /\ IsPrefix(pfOut, PrefetchUpstream)
        /\ pfStops > 0 => pfOut = PrefetchUpstream

C8_Witness ==
    /\ pfCfg # <<>>
    /\ pfIt.buffer_size >= 2
    /\ Len(pfIt.buffer) >= 2
    /\ Len(pfOut) >= 1

C15_WindowDropLastFull ==
    drop_last =>
        \A k \in 1..Len(windowOut) : Len(Records(windowOut[k])) = size

Min(a, b) == IF a < b THEN a ELSE b

\* the records of the k-th window (1-based) over an upstream of n records:
\* those at 0-based index (k-1)*stride .. (k-1)*stride+size-1 that exist
WindowExpected(k) ==
    [j \in 1..Min(size, n - (k - 1) * stride) |-> (k - 1) * stride + j]

C18_ArrayStrategyFirst ==
    windowIt.batch_helper # NoHelper =>
        \A p \in 1..Len(windowIt.batch_helper) :
            windowIt.batch_helper[p] \in {"_NumpyStrategy", "_TorchStrategy"}

\* --------------------------------------------------- Map scheduler (4.5)
\* C17: in a parallel map session (K >= 1) at most K invocations are
\* launched and not yet emitted; an invocation is launched only while fewer
\* than K are outstanding and the upstream is not exhausted; a DONE iterator
\* launches nothing.
C17_MapBounded ==
    [][mapCfg.K >= 1 =>
          /\ MapOutstanding(mapIt) <= mapCfg.K
          /\ MapOutstanding(mapIt') <= mapCfg.K
          /\ mapIt'.seq # mapIt.seq =>
                /\ MapOutstanding(mapIt) < mapCfg.K
                /\ ~mapIt.upstream_done
                /\ mapIt.state = "RUNNING"
          /\ mapIt.state = "DONE" => mapIt' = mapIt]_vars

C17_Witness ==
    /\ mapCfg.K = 2
    /\ MapOutstanding(mapIt) = 2
    /\ mapIt.seq = 3
    /\ Len(mapOut) >= 1

\* ------------------------------------------------ Dataset builder methods
\* BatchDataOperation.__init__: the arguments are stored as given
BatchDataOperation(batch_size, dl) ==
    [op |-> "Batch", size |-> batch_size, stride |-> 1, drop_last |-> dl]

\* WindowDataOperation.__init__: the arguments are stored as given
WindowDataOperation(sz, st, dl) ==
    [op |-> "Window", size |-> sz, stride |-> st, drop_last |-> dl]

\* WindowPaddedDataOperation.__init__: the arguments are stored as given
WindowPaddedDataOperation(sz, st, dl) ==
    [op |-> "WindowPadded", size |-> sz, stride |-> st, drop_last |-> dl]

\* PrefetchDataOperation.__init__: the buffer length must be positive
PrefetchAccepts(buffer_size) == buffer_size >= 1

PrefetchOperator(buffer_size) ==
    [op |-> "Prefetch", size |-> buffer_size, stride |-> 1, drop_last |-> FALSE]

InitConstruct ==
    /\ GroupIdle /\ MapIdle /\ PrefetchIdle /\ ShuffleIdle /\ SessionsIdle
    /\ IterIdle /\ SyncIdle
    /\ operators = <<>>
    /\ rejected = 0

\* Dataset.batch: the asserts test the types of the arguments only
DatasetBatch ==
    /\ Len(operators) + rejected < MaxOps
    /\ \E batch_size \in -1..MaxSize, dl \in BOOLEAN :
          operators' = Append(operators, BatchDataOperation(batch_size, dl))
    /\ UNCHANGED <<rejected, groupVars, mapVars, pfVars, shVars, sessVars,
                   iterVars, syncVars>>

\* Dataset.window: the asserts test the types of the arguments only
DatasetWindow ==
    /\ Len(operators) + rejected < MaxOps
    /\ \E sz \in -1..MaxSize, st \in -1..MaxStride, dl \in BOOLEAN :
          operators' = Append(operators, WindowDataOperation(sz, st, dl))
    /\ UNCHANGED <<rejected, groupVars, mapVars, pfVars, shVars, sessVars,
                   iterVars, syncVars>>

\* Dataset.window_padded: the asserts test the types of the arguments only
DatasetWindowPadded ==
    /\ Len(operators) + rejected < MaxOps
    /\ \E sz \in -1..MaxSize, st \in -1..MaxStride, dl \in BOOLEAN :
          operators' = Append(operators, WindowPaddedDataOperation(sz, st, dl))
    /\ UNCHANGED <<rejected, groupVars, mapVars, pfVars, shVars, sessVars,
                   iterVars, syncVars>>

\* Dataset.prefetch: the assert tests the type; the operator's constructor
\* raises for a buffer length that is not positive
DatasetPrefetch ==
    /\ Len(operators) + rejected < MaxOps
    /\ \E sz \in -1..MaxBuffer :
          IF PrefetchAccepts(sz)
          THEN operators' = Append(operators, PrefetchOperator(sz)) /\ UNCHANGED rejected
          ELSE rejected' = rejected + 1 /\ UNCHANGED operators
    /\ UNCHANGED <<groupVars, mapVars, pfVars, shVars, sessVars, iterVars, syncVars>>

NextConstruct == DatasetBatch \/ DatasetWindow \/ DatasetWindowPadded \/ DatasetPrefetch

SpecConstruct == InitConstruct /\ [][NextConstruct]_vars

\* C11: no batch, window or prefetch operator is ever constructed with a
\* batch_size, size, stride or buffer length that is not positive.
C11_PositiveSizes ==
    \A i \in 1..Len(operators) :
        operators[i].size >= 1 /\ operators[i].stride >= 1

\* C20: every iteration request gets a session identifier of its own, and
\* that identifier reaches the iterator of the leaf source through the
\* get_iter of every operator of the chain, batch and window alike.
C20_SessionIdThreaded ==
    \A s \in 1..2 :
        sessions[s].session_id # 0 =>
            /\ \A t \in 1..2 : t # s => sessions[t].session_id # sessions[s].session_id
            /\ sessions[s].raised = NoError
            /\ sessions[s].iter # 0
            /\ iterators[sessions[s].iter].source_iter.session_id = sessions[s].session_id

\* ------------------------------------------ _DatasetSyncIterator (bridge)
\* _DatasetSyncIterator.__init__ over Dataset.__aiter__(): the loop runs
\* nothing yet; `it` is the Prefetch iterator the session pulls from
SyncIterator(source) ==
    [state |-> "idle",          \* idle, blocked (inside __next__), interrupted, stopped
     next_task |-> FALSE,       \* the task of self.__next() is pending on the loop
     pull_loop |-> FALSE,       \* the background pull loop of the Prefetch iterator is pending
     it |-> PrefetchIterator(DatasetAiterSource(source)),
     out |-> <<>>]

InitSync ==
    /\ GroupIdle /\ MapIdle /\ PrefetchIdle /\ ShuffleIdle /\ SessionsIdle
    /\ IterIdle /\ ConstructIdle
    /\ \E k \in 0..MaxN, b \in 0..MaxBuffer :
          sync = SyncIterator(IF b = 0 THEN LeafSource(Upstream(k))
                              ELSE PrefetchDataOperation(LeafSource(Upstream(k)), b))

\* __next__: task = self.__next(); self._loop.run_until_complete(task). The
\* first pull starts the background pull loop of the Prefetch iterator.
SyncNext ==
    /\ sync.state = "idle"
    /\ sync' = [sync EXCEPT !.state = "blocked", !.next_task = TRUE,
                            !.pull_loop = @ \/ ~sync.it.upstream_done]
    /\ UNCHANGED <<groupVars, mapVars, pfVars, shVars, sessVars, iterVars, ctorVars>>

\* the loop runs the background pull loop for one turn; the loop task ends
\* when the upstream signals exhaustion
SyncFill ==
    /\ sync.state = "blocked"
    /\ sync.pull_loop
    /\ PrefetchCanFill(sync.it)
    /\ LET it1 == PrefetchOnFill(sync.it)
       IN sync' = [sync EXCEPT !.it = it1, !.pull_loop = ~it1.upstream_done]
    /\ UNCHANGED <<groupVars, mapVars, pfVars, shVars, sessVars, iterVars, ctorVars>>

\* the task of __next completes with a record: run_until_complete returns it
SyncReturn ==
    /\ sync.state = "blocked"
    /\ sync.it.buffer # <<>>
    /\ LET r == PrefetchPop(sync.it.buffer)
       IN sync' = [sync EXCEPT !.state = "idle", !.next_task = FALSE,
                               !.it.buffer = r.rest,
                               !.out = Append(@, r.item.items[1])]
    /\ UNCHANGED <<groupVars, mapVars, pfVars, shVars, sessVars, iterVars, ctorVars>>

\* the task of __next completes with StopAsyncIteration: StopIteration
SyncStop ==
    /\ sync.state = "blocked"
    /\ sync.it.buffer = <<>>
    /\ sync.it.upstream_done
    /\ sync' = [sync EXCEPT !.state = "stopped", !.next_task = FALSE]
    /\ UNCHANGED <<groupVars, mapVars, pfVars, shVars, sessVars, iterVars, ctorVars>>

\* SIGINT / SIGTERM while run_until_complete is blocked: the handler raises
\* KeyboardInterrupt / SystemExit out of __next__; nothing is cancelled
SyncInterrupt ==
    /\ sync.state = "blocked"
    /\ sync' = [sync EXCEPT !.state = "interrupted"]
    /\ UNCHANGED <<groupVars, mapVars, pfVars, shVars, sessVars, iterVars, ctorVars>>

NextSync == SyncNext \/ SyncFill \/ SyncReturn \/ SyncStop \/ SyncInterrupt

SpecSync == InitSync /\ [][NextSync]_vars

\* C14: after an interrupt has been raised out of a blocked 'next' call, no
\* task of the session is left pending: neither the task of the call nor the
\* background pull loop of the Prefetch stage.
C14_InterruptCancels ==
    sync.state = "interrupted" => (~sync.next_task /\ ~sync.pull_loop)

\* ------------------------------------------- iterators, one at a time
\* C12: after a pull on a Batch or Window iterator has raised for a record of
\* another arity, no later pull on that iterator returns a container.
C12_ShapeErrorFatal ==
    [][(itCfg.kind \in {"batch", "window"} /\ itErrs > 0) => itOut' = itOut]_vars

\* C13: once a pull on a Tensors, Window, WindowPadded or Batch iterator has
\* signalled exhaustion, every later pull signals exhaustion again: it
\* returns nothing and raises nothing.
C13_ExhaustionPermanent ==
    [][itStops > 0 => (itOut' = itOut /\ itErrs' = itErrs /\ itStops' = itStops + 1)]_vars

C13_Witness ==
    /\ itCfg.kind = "window"
    /\ itCfg.stride > itCfg.size
    /\ Len(itOut) >= 2
    /\ itStops = MaxStops

\* C19 as stated: the outputs of a Batch or Window session are single
\* containers when the first record has arity 1, bare or 1-tuple, and tuples
\* of containers when its arity is greater than 1.
C19_SqueezeByArity ==
    itCfg.kind \in {"batch", "window"} =>
        \A k \in 1..Len(itOut) :
            itOut[k].tupled = (Len(itCfg.upstream[1].items) > 1)

\* C19: the outputs of a Batch or Window session are single containers when
\* the first record of the session is a bare value, and tuples of containers
\* when it is a tuple, 1-element tuples included (their output is a 1-tuple
\* holding one container); the choice made on the first record applies to
\* every output of the session.
C19_SqueezeBareOnly ==
    itCfg.kind \in {"batch", "window"} =>
        \A k \in 1..Len(itOut) :
            /\ itOut[k].tupled = itCfg.upstream[1].is_tuple
            /\ itOut[k].tupled => Len(itOut[k].out) = Len(itCfg.upstream[1].items)

C19_Witness ==
    /\ itCfg.kind \in {"batch", "window"}
    /\ Len(itCfg.upstream) >= 2
    /\ itCfg.upstream[1].is_tuple
    /\ Len(itCfg.upstream[1].items) = 1
    /\ Len(itOut) >= 2
    /\ itOut[2].tupled

\* ------------------------------------------- Window and WindowPadded
\* the containers a WindowPadded session returns before it signals
\* exhaustion, at most `fuel` of them
RECURSIVE PaddedWindows(_, _)
PaddedWindows(it, fuel) ==
    IF fuel = 0 THEN <<>>
    ELSE LET r == WindowPaddedAnext(it)
         IN IF Len(r.out) = 0 THEN <<>>
            ELSE <<r.out>> \o PaddedWindows(r.it, fuel - 1)

\* the WindowPadded session over the upstream and arguments of the Window one
PaddedSession ==
    PaddedWindows(WindowPaddedIterator(SeqSource(Upstream(n)), size, stride, drop_last),
                  n + 1)

\* the upstream records a padded container was built from
PaddedRecords(container) == [i \in 1..Len(container) |-> container[i][1]]

\* C21: over the same upstream and with the same size, stride and drop_last
\* the Window iterator and the WindowPadded iterator emit the same number of
\* windows, the k-th of each built from the same upstream records.
C21_WindowSameAsPadded ==
    /\ Len(windowOut) <= Len(PaddedSession)
    /\ \A k \in 1..Len(windowOut) :
          Records(windowOut[k]) = PaddedRecords(PaddedSession[k])
    /\ windowStops > 0 => Len(windowOut) = Len(PaddedSession)

\* C22: a Window or WindowPadded session built with any accepted size and
\* stride over n records ends: it never returns the same window twice in a
\* row and it returns at most n windows.
C22_WindowSessionEnds ==
    /\ \A k \in 1..(Len(itOut) - 1) : itOut[k].out # itOut[k + 1].out
    /\ Len(itOut) <= Len(itCfg.upstream)

\* C23: between two pulls on a Window iterator (size >= 1, stride >= 1),
\* also after a pull that ended in exhaustion or in an error, the buffer
\* holds at most size-1 records, the skip counter is >= 0 and it is > 0 only
\* when the buffer is empty; at the end of the fill loop of the next pull,
\* where the buffer is largest, it holds at most `size` records and the skip
\* counter is >= 0.
C23_WindowBufferBounds ==
    itCfg.kind = "window" =>
        /\ Len(itIt.window) <= itCfg.size - 1
        /\ itIt.skip >= 0
        /\ itIt.skip > 0 => itIt.window = <<>>
        /\ LET filled == WindowLoop(itIt)
           IN /\ Len(filled.window) <= itCfg.size
              /\ filled.skip >= 0

C23_Witness ==
    /\ itCfg.kind = "window"
    /\ itCfg.size >= 2
    /\ itErrs >= 1
    /\ Len(itIt.window) = itCfg.size - 1

====
